---- MODULE Spec2Model ----
(***************************************************************************)
(* A model of sddns (src/sddns/__init__.py): typed DNS records, zones that  *)
(* own an ordered list of records, the RRset aggregation zone_rrest(), and  *)
(* the configuration root that owns zones under unique names.               *)
(*                                                                          *)
(* Python objects live in heaps: `heap` holds the Record objects in         *)
(* allocation order, `zones` the Zone objects; a zone's records list and    *)
(* the configuration's zones list hold references (heap indices), so that   *)
(* the in-place TTL resolution of add_record is seen through every alias.   *)
(* An Optional[int] is a sequence: <<>> is None, <<n>> is the integer n.    *)
(* Strings the code indexes or scans (alias, exchange, target, text, zone   *)
(* name) are sequences of one-character strings; the strings it only        *)
(* stores or compares (record name, addresses, fingerprints) are atoms.     *)
(***************************************************************************)
EXTENDS Integers, Sequences, FiniteSets, TLC

VARIABLES heap, zones, config, ret

vars == <<heap, zones, config, ret>>

(***************************************************************************)
(* Bounds of the model.                                                     *)
(***************************************************************************)
MaxRecords == 2
MaxZones == 2

(***************************************************************************)
(* Values of the language.                                                  *)
(***************************************************************************)
None == <<>>
Some(n) == <<n>>

Raise(e) == [raised |-> e]
Return(v) == [raised |-> "", value |-> v]

Range(s) == {s[i] : i \in DOMAIN s}

RECURSIVE SeqsUpTo(_, _)
SeqsUpTo(S, n) ==
    IF n <= 0 THEN {<<>>}
    ELSE LET shorter == SeqsUpTo(S, n - 1)
         IN  shorter \cup {Append(s, x) : s \in shorter, x \in S}

(***************************************************************************)
(* RecordType and CAAFlag (enumerations; the numeric protocol identifiers  *)
(* of RecordType take no part in any computation, only the names do).      *)
(***************************************************************************)
RecordType == {"A", "AAAA", "CNAME", "MX", "TXT", "SRV", "CAA", "SSHFP"}

CAAFlag == [Issue |-> "issue", Iodef |-> "iodef", IssueWildcard |-> "issuewild"]

(***************************************************************************)
(* str.replace(";", "\\;") and the `s[-1] != "."` normalisation.           *)
(***************************************************************************)
RECURSIVE replace_semicolon(_)
replace_semicolon(text) ==
    IF text = <<>> THEN <<>>
    ELSE IF Head(text) = ";"
         THEN <<"\\", ";">> \o replace_semicolon(Tail(text))
         ELSE <<Head(text)>> \o replace_semicolon(Tail(text))

(***************************************************************************)
(* Record.__init__ and the eight typed constructors.  Each yields          *)
(* Return(record) or Raise(exception).                                     *)
(***************************************************************************)
RecordKeepApex(name, record_type, data, ttl) ==
    [name |-> name, type |-> record_type, data |-> data, ttl |-> ttl]

Record(name, record_type, data, ttl) ==
    [name |-> IF name = "@" THEN "" ELSE name,
     type |-> record_type,
     data |-> data,
     ttl  |-> ttl]

ARecord(name, ipv4, ttl) == Return(Record(name, "A", ipv4, ttl))

AAAARecord(name, ipv6, ttl) == Return(Record(name, "AAAA", ipv6, ttl))

CNAMERecord(name, alias, ttl) ==
    IF Len(alias) = 0 THEN Raise("IndexError")
    ELSE LET a == IF alias[Len(alias)] # "." THEN Append(alias, ".") ELSE alias
         IN  Return(Record(name, "CNAME", a, ttl))

MXRecord(name, exchange, preference, ttl) ==
    IF Len(exchange) = 0 THEN Raise("IndexError")
    ELSE LET e == IF exchange[Len(exchange)] # "." THEN Append(exchange, ".")
                  ELSE exchange
         IN  Return(Record(name, "MX",
                           [exchange |-> e, preference |-> preference], ttl))

TXTRecord(name, text, ttl) ==
    Return(Record(name, "TXT", replace_semicolon(text), ttl))

SRVRecord(name, target, port, priority, weight, ttl) ==
    IF Len(target) = 0 THEN Raise("IndexError")
    ELSE LET t == IF target[Len(target)] # "." THEN Append(target, ".")
                  ELSE target
         IN  Return(Record(name, "SRV",
                           [target |-> t, port |-> port,
                            priority |-> priority, weight |-> weight], ttl))

CAARecordBadRange(name, flag, tag, value, ttl) ==
    IF ~(0 <= flag /\ flag <= 256) THEN Raise("ValueError")
    ELSE Return(Record(name, "CAA",
                       [tag |-> tag, value |-> value, flag |-> flag], ttl))

CAARecord(name, flag, tag, value, ttl) ==
    IF ~(0 <= flag /\ flag <= 255) THEN Raise("ValueError")
    ELSE Return(Record(name, "CAA",
                       [tag |-> tag, value |-> value, flag |-> flag], ttl))

SSHFPRecord(name, algo, key_type, fp, ttl) ==
    Return(Record(name, "SSHFP",
                  [algorithm |-> algo, fingerprint_type |-> key_type,
                   fingerprint |-> fp], ttl))

(***************************************************************************)
(* Zone.__init__.                                                          *)
(***************************************************************************)
DefaultTtl == 60

Zone(name, default_ttl) ==
    IF Len(name) = 0 THEN Raise("IndexError")
    ELSE LET n == IF name[Len(name)] # "." THEN Append(name, ".") ELSE name
         IN  Return([name |-> n, records |-> <<>>, default_ttl |-> default_ttl])

(***************************************************************************)
(* Zone.add_record and Zone.add_records on the pair (record heap, zone     *)
(* heap): the record's ttl is resolved in place when it is None, then the  *)
(* reference is appended to the zone's list.                               *)
(***************************************************************************)
add_record_overwrite(h, zs, z, r) ==
    [heap  |-> [h EXCEPT ![r].ttl = Some(zs[z].default_ttl)],
     zones |-> [zs EXCEPT ![z].records = Append(@, r)]]

add_record(h, zs, z, r) ==
    [heap  |-> IF h[r].ttl = None
               THEN [h EXCEPT ![r].ttl = Some(zs[z].default_ttl)]
               ELSE h,
     zones |-> [zs EXCEPT ![z].records = Append(@, r)]]

RECURSIVE add_records(_, _, _, _)
add_records(h, zs, z, rs) ==
    IF rs = <<>> THEN [heap |-> h, zones |-> zs]
    ELSE LET s == add_record(h, zs, z, Head(rs))
         IN  add_records(s.heap, s.zones, z, Tail(rs))

(***************************************************************************)
(* Zone.filter_record and Zone.min_ttl.                                    *)
(***************************************************************************)
filter_record(records, record_type) ==
    SelectSeq(records, LAMBDA r : r.type = record_type)

MinTtlFallback == 30

min_ttl_first(records, record_type) ==
    LET filtered_records ==
            [i \in DOMAIN filter_record(records, record_type) |->
                filter_record(records, record_type)[i].ttl[1]]
    IN  IF Len(filtered_records) > 0 THEN filtered_records[1]
        ELSE MinTtlFallback

min_ttl(records, record_type) ==
    LET filtered_records ==
            [i \in DOMAIN filter_record(records, record_type) |->
                filter_record(records, record_type)[i].ttl[1]]
    IN  IF Len(filtered_records) > 0
        THEN CHOOSE m \in Range(filtered_records) :
                 \A t \in Range(filtered_records) : m <= t
        ELSE MinTtlFallback

(***************************************************************************)
(* Zone.append_rrset_multivalue, Zone.append_rrset_lastvalue and           *)
(* Zone.host_rrset.  The accumulator carries the rrset list the code       *)
(* appends to and, beside it, the argument list of every min_ttl call made *)
(* so far (min_ttl_args), which the code does not keep.                    *)
(***************************************************************************)
append_rrset_multivalue_unguarded(acc, host_records, record_type) ==
    LET type_records == filter_record(host_records, record_type)
    IN  [rrset |-> Append(acc.rrset,
                     [type   |-> record_type,
                      ttl    |-> min_ttl(type_records, record_type),
                      values |-> [i \in DOMAIN type_records |->
                                     type_records[i].data]]),
         min_ttl_args |-> Append(acc.min_ttl_args,
                                 [records |-> type_records,
                                  record_type |-> record_type])]

append_rrset_multivalue(acc, host_records, record_type) ==
    LET type_records == filter_record(host_records, record_type)
    IN  IF Len(type_records) <= 0 THEN acc
        ELSE [rrset |-> Append(acc.rrset,
                         [type   |-> record_type,
                          ttl    |-> min_ttl(type_records, record_type),
                          values |-> [i \in DOMAIN type_records |->
                                         type_records[i].data]]),
              min_ttl_args |-> Append(acc.min_ttl_args,
                                      [records |-> type_records,
                                       record_type |-> record_type])]

append_rrset_firstvalue(acc, host_records, record_type) ==
    LET type_records == filter_record(host_records, record_type)
    IN  IF Len(type_records) <= 0 THEN acc
        ELSE [rrset |-> Append(acc.rrset,
                         [type  |-> record_type,
                          ttl   |-> min_ttl(type_records, record_type),
                          value |-> type_records[1].data]),
              min_ttl_args |-> Append(acc.min_ttl_args,
                                      [records |-> type_records,
                                       record_type |-> record_type])]

append_rrset_lastvalue(acc, host_records, record_type) ==
    LET type_records == filter_record(host_records, record_type)
    IN  IF Len(type_records) <= 0 THEN acc
        ELSE [rrset |-> Append(acc.rrset,
                         [type  |-> record_type,
                          ttl   |-> min_ttl(type_records, record_type),
                          value |-> type_records[Len(type_records)].data]),
              min_ttl_args |-> Append(acc.min_ttl_args,
                                      [records |-> type_records,
                                       record_type |-> record_type])]

\* self.records of a zone, dereferenced: the Record objects in list order.
zone_records(h, zone) == [i \in DOMAIN zone.records |-> h[zone.records[i]]]

host_rrset_cname_first(h, zone, host) ==
    LET host_records == SelectSeq(zone_records(h, zone), LAMBDA r : r.name = host)
        a0 == [rrset |-> <<>>, min_ttl_args |-> <<>>]
        a1 == append_rrset_lastvalue(a0, host_records, "CNAME")
        a2 == append_rrset_multivalue(a1, host_records, "A")
        a3 == append_rrset_multivalue(a2, host_records, "AAAA")
        a4 == append_rrset_multivalue(a3, host_records, "MX")
        a5 == append_rrset_multivalue(a4, host_records, "TXT")
        a6 == append_rrset_multivalue(a5, host_records, "SRV")
        a7 == append_rrset_multivalue(a6, host_records, "CAA")
    IN  append_rrset_multivalue(a7, host_records, "SSHFP")

host_rrset(h, zone, host) ==
    LET host_records == SelectSeq(zone_records(h, zone), LAMBDA r : r.name = host)
        a0 == [rrset |-> <<>>, min_ttl_args |-> <<>>]
        a1 == append_rrset_multivalue(a0, host_records, "A")
        a2 == append_rrset_multivalue(a1, host_records, "AAAA")
        a3 == append_rrset_multivalue(a2, host_records, "MX")
        a4 == append_rrset_multivalue(a3, host_records, "TXT")
        a5 == append_rrset_multivalue(a4, host_records, "SRV")
        a6 == append_rrset_multivalue(a5, host_records, "CAA")
        a7 == append_rrset_multivalue(a6, host_records, "SSHFP")
    IN  append_rrset_lastvalue(a7, host_records, "CNAME")

(***************************************************************************)
(* Zone.zone_rrest: one key per distinct record name.                      *)
(***************************************************************************)
zone_rrest(h, zone) ==
    LET hostnames == {h[r].name : r \in Range(zone.records)}
    IN  [hostname \in hostnames |-> host_rrset(h, zone, hostname)]

(***************************************************************************)
(* Config.add_zone on the configuration's zones list.                      *)
(***************************************************************************)
add_zone_unchecked(cfg, zs, z) == Return(Append(cfg, z))

add_zone(cfg, zs, z) ==
    IF zs[z].name \in {zs[c].name : c \in Range(cfg)}
    THEN Raise("ValueError")
    ELSE Return(Append(cfg, z))

(***************************************************************************)
(* The operations as steps of the caller.  `ret` is what the last call     *)
(* gave back: the operation, its decisive argument, the exception raised   *)
(* ("" when none) and the returned value where the claims read it.         *)
(***************************************************************************)
\* Every record built so far has been added to some zone: the caller adds
\* each record before building the next (Spec and SpecTtl build records
\* only then, which keeps one unattached record at a time).
Attached ==
    \A r \in DOMAIN heap : \E z \in DOMAIN zones : r \in Range(zones[z].records)

\* A constructor call that gave `res`: the new object is allocated only when
\* nothing was raised.
Allocatable(res) == res.raised = "" => Len(heap) < MaxRecords

Allocated(res) == IF res.raised = "" THEN Append(heap, res.value) ELSE heap

NewA(name, ipv4, ttl) ==
    LET res == ARecord(name, ipv4, ttl)
    IN  /\ Allocatable(res)
        /\ heap' = Allocated(res)
        /\ ret' = [op |-> "ARecord", arg |-> ipv4, raised |-> res.raised]
        /\ UNCHANGED <<zones, config>>

NewAAAA(name, ipv6, ttl) ==
    LET res == AAAARecord(name, ipv6, ttl)
    IN  /\ Allocatable(res)
        /\ heap' = Allocated(res)
        /\ ret' = [op |-> "AAAARecord", arg |-> ipv6, raised |-> res.raised]
        /\ UNCHANGED <<zones, config>>

NewCNAME(name, alias, ttl) ==
    LET res == CNAMERecord(name, alias, ttl)
    IN  /\ Allocatable(res)
        /\ heap' = Allocated(res)
        /\ ret' = [op |-> "CNAMERecord", arg |-> alias, raised |-> res.raised]
        /\ UNCHANGED <<zones, config>>

NewMX(name, exchange, preference, ttl) ==
    LET res == MXRecord(name, exchange, preference, ttl)
    IN  /\ Allocatable(res)
        /\ heap' = Allocated(res)
        /\ ret' = [op |-> "MXRecord", arg |-> exchange, raised |-> res.raised]
        /\ UNCHANGED <<zones, config>>

NewTXT(name, text, ttl) ==
    LET res == TXTRecord(name, text, ttl)
    IN  /\ Allocatable(res)
        /\ heap' = Allocated(res)
        /\ ret' = [op |-> "TXTRecord", arg |-> text, raised |-> res.raised]
        /\ UNCHANGED <<zones, config>>

NewSRV(name, target, port, priority, weight, ttl) ==
    LET res == SRVRecord(name, target, port, priority, weight, ttl)
    IN  /\ Allocatable(res)
        /\ heap' = Allocated(res)
        /\ ret' = [op |-> "SRVRecord", arg |-> target, raised |-> res.raised]
        /\ UNCHANGED <<zones, config>>

NewCAA(name, flag, tag, value, ttl) ==
    LET res == CAARecord(name, flag, tag, value, ttl)
    IN  /\ Allocatable(res)
        /\ heap' = Allocated(res)
        /\ ret' = [op |-> "CAARecord", arg |-> flag, raised |-> res.raised]
        /\ UNCHANGED <<zones, config>>

NewSSHFP(name, algo, key_type, fp, ttl) ==
    LET res == SSHFPRecord(name, algo, key_type, fp, ttl)
    IN  /\ Allocatable(res)
        /\ heap' = Allocated(res)
        /\ ret' = [op |-> "SSHFPRecord", arg |-> fp, raised |-> res.raised]
        /\ UNCHANGED <<zones, config>>

NewZone(name, default_ttl) ==
    LET res == Zone(name, default_ttl)
    IN  /\ res.raised = "" => Len(zones) < MaxZones
        /\ zones' = IF res.raised = "" THEN Append(zones, res.value) ELSE zones
        /\ ret' = [op |-> "Zone", arg |-> name, raised |-> res.raised]
        /\ UNCHANGED <<heap, config>>

\* zone.default_ttl = t, an assignment by the caller.
SetDefaultTtl(z, t) ==
    /\ zones[z].default_ttl # t
    /\ zones' = [zones EXCEPT ![z].default_ttl = t]
    /\ ret' = [op |-> "default_ttl", zone |-> z]
    /\ UNCHANGED <<heap, config>>

AddRecord(z, r) ==
    LET s == add_record(heap, zones, z, r)
    IN  /\ Len(zones[z].records) < MaxRecords
        /\ heap' = s.heap
        /\ zones' = s.zones
        /\ ret' = [op |-> "add_record", zone |-> z]
        /\ UNCHANGED config

AddRecords(z, rs) ==
    LET s == add_records(heap, zones, z, rs)
    IN  /\ Len(zones[z].records) + Len(rs) <= MaxRecords
        /\ heap' = s.heap
        /\ zones' = s.zones
        /\ ret' = [op |-> "add_records", zone |-> z]
        /\ UNCHANGED config

ZoneRrestDraining(z) ==
    LET m == zone_rrest(heap, zones[z])
    IN  /\ ret' = [op |-> "zone_rrest", zone |-> z,
                   value |-> [host \in DOMAIN m |-> m[host].rrset],
                   min_ttl_args |-> [host \in DOMAIN m |-> m[host].min_ttl_args]]
        /\ zones' = [zones EXCEPT ![z].records = <<>>]
        /\ UNCHANGED <<heap, config>>

ZoneRrest(z) ==
    LET m == zone_rrest(heap, zones[z])
    IN  /\ ret' = [op |-> "zone_rrest", zone |-> z,
                   value |-> [host \in DOMAIN m |-> m[host].rrset],
                   min_ttl_args |-> [host \in DOMAIN m |-> m[host].min_ttl_args]]
        /\ UNCHANGED <<heap, zones, config>>

AddZone(z) ==
    LET res == add_zone(config, zones, z)
    IN  /\ config' = IF res.raised = "" THEN res.value ELSE config
        /\ ret' = [op |-> "add_zone", zone |-> z, raised |-> res.raised]
        /\ UNCHANGED <<heap, zones>>

(***************************************************************************)
(* Inputs.                                                                  *)
(***************************************************************************)
\* Spec: every kind under every name; A, CNAME, MX and TXT records with and
\* without an explicit ttl, the other kinds without one.
Names == {"@", "", "www"}
TTLs == {None, Some(30)}
Ipv4s == {"1.2.3.4", "5.6.7.8"}
Ipv6s == {"::1"}
Aliases == {<<"a">>, <<"a", ".">>, <<"b">>}
Exchanges == {<<"m">>}
Texts == {<<"v", ";">>}
Targets == {<<"s", ".">>}
Flags == {0}
Fingerprints == {"ab12"}

(***************************************************************************)
(* Spec: one zone, Zone("e") with the default default_ttl, and every       *)
(* record constructor; records are built, added and aggregated.            *)
(***************************************************************************)
Init ==
    /\ heap = <<>>
    /\ zones = <<Zone(<<"e">>, DefaultTtl).value>>
    /\ config = <<>>
    /\ ret = [op |-> "init"]

Next ==
    \/ Attached /\ \E n \in Names, x \in Ipv4s, t \in TTLs : NewA(n, x, t)
    \/ Attached /\ \E n \in Names, x \in Ipv6s, t \in {None} : NewAAAA(n, x, t)
    \/ Attached /\ \E n \in Names, x \in Aliases, t \in TTLs : NewCNAME(n, x, t)
    \/ Attached /\ \E n \in Names, x \in Exchanges, t \in TTLs : NewMX(n, x, 10, t)
    \/ Attached /\ \E n \in Names, x \in Texts, t \in TTLs : NewTXT(n, x, t)
    \/ Attached /\ \E n \in Names, x \in Targets, t \in {None} : NewSRV(n, x, 443, 1, 5, t)
    \/ Attached /\ \E n \in Names, x \in Flags, t \in {None} :
           NewCAA(n, x, CAAFlag.Issue, "ca.example", t)
    \/ Attached /\ \E n \in Names, x \in Fingerprints, t \in {None} : NewSSHFP(n, 4, 2, x, t)
    \/ \E r \in DOMAIN heap : AddRecord(1, r)
    \/ \E rs \in SeqsUpTo(DOMAIN heap, MaxRecords - Len(zones[1].records)) :
           AddRecords(1, rs)
    \/ ZoneRrest(1)

Spec == Init /\ [][Next]_vars

(***************************************************************************)
(* Properties of the aggregation, read off the result of the last          *)
(* zone_rrest() call (ret) and the zone it was made on.                    *)
(***************************************************************************)
MultiValueKinds == {"A", "AAAA", "MX", "TXT", "SRV", "CAA", "SSHFP"}

KindOrder == <<"A", "AAAA", "MX", "TXT", "SRV", "CAA", "SSHFP", "CNAME">>

KindPosition(kind) == CHOOSE i \in DOMAIN KindOrder : KindOrder[i] = kind

Aggregated == ret.op = "zone_rrest"

\* The Record objects of the aggregated zone, in insertion order.
ZoneRecs == zone_records(heap, zones[ret.zone])

\* The positions, ascending, of the zone's records of one host and kind.
RECURSIVE PositionsFrom(_, _, _)
PositionsFrom(i, host, kind) ==
    IF i > Len(ZoneRecs) THEN <<>>
    ELSE IF ZoneRecs[i].name = host /\ ZoneRecs[i].type = kind
         THEN <<i>> \o PositionsFrom(i + 1, host, kind)
         ELSE PositionsFrom(i + 1, host, kind)

Positions(host, kind) == PositionsFrom(1, host, kind)

\* The entries of one kind in a host's RRset.
EntriesOf(host, kind) ==
    {i \in DOMAIN ret.value[host] : ret.value[host][i].type = kind}

IsLeastTtl(t, pos) ==
    /\ \E j \in DOMAIN pos : ZoneRecs[pos[j]].ttl = Some(t)
    /\ \A j \in DOMAIN pos : t <= ZoneRecs[pos[j]].ttl[1]

\* C1: the keys of the zone_rrest() mapping are exactly the distinct
\* normalized names of the zone's records: every key is the name of some
\* record, every record's name is a key, and "@" is never a key (it was
\* normalized to "" at construction, so "@" and "" share one key).
C1_KeysAreRecordNames ==
    Aggregated =>
        /\ \A host \in DOMAIN ret.value :
               \E i \in DOMAIN ZoneRecs : ZoneRecs[i].name = host
        /\ \A i \in DOMAIN ZoneRecs : ZoneRecs[i].name \in DOMAIN ret.value
        /\ "@" \notin DOMAIN ret.value

\* C1's case: records built as "@" and as "" aggregated under the one key "".
C1_Witness ==
    /\ Aggregated
    /\ Len(ZoneRecs) = 2
    /\ DOMAIN ret.value = {""}
    /\ \E i \in DOMAIN heap : heap[i].type = "CNAME"

\* C2: for every host and multi-value kind with N >= 1 records, the host's
\* RRset has exactly one entry of that kind, whose values are the payloads
\* of those N records in insertion order (duplicates kept) and whose ttl is
\* the least of their TTLs.
C2_MultiValueEntry ==
    Aggregated =>
        \A host \in DOMAIN ret.value : \A kind \in MultiValueKinds :
            LET pos == Positions(host, kind)
            IN  Len(pos) >= 1 =>
                    /\ Cardinality(EntriesOf(host, kind)) = 1
                    /\ \A e \in EntriesOf(host, kind) :
                           LET entry == ret.value[host][e]
                           IN  /\ DOMAIN entry = {"type", "ttl", "values"}
                               /\ Len(entry.values) = Len(pos)
                               /\ \A j \in DOMAIN pos :
                                      entry.values[j] = ZoneRecs[pos[j]].data
                               /\ IsLeastTtl(entry.ttl, pos)

\* C2's case: two A records of one host with the same payload, the later
\* one carrying the smaller ttl; both payloads are kept.
C2_Witness ==
    /\ Aggregated
    /\ Len(Positions("", "A")) = 2
    /\ ZoneRecs[1].data = ZoneRecs[2].data
    /\ ZoneRecs[1].ttl = Some(DefaultTtl)
    /\ ZoneRecs[2].ttl = Some(30)
    /\ ret.value[""][1].ttl = 30
    /\ Len(ret.value[""][1].values) = 2

\* C3: a host with CNAME records has exactly one CNAME entry; it carries a
\* single value, the payload of the CNAME added last, and the least ttl of
\* all of the host's CNAME records.
C3_CnameLastValue ==
    Aggregated =>
        \A host \in DOMAIN ret.value :
            LET pos == Positions(host, "CNAME")
            IN  Len(pos) >= 1 =>
                    /\ Cardinality(EntriesOf(host, "CNAME")) = 1
                    /\ \A e \in EntriesOf(host, "CNAME") :
                           LET entry == ret.value[host][e]
                           IN  /\ DOMAIN entry = {"type", "ttl", "value"}
                               /\ entry.value = ZoneRecs[pos[Len(pos)]].data
                               /\ IsLeastTtl(entry.ttl, pos)

\* C3's case: two CNAMEs of one host with different payloads, the earlier
\* one with the smaller ttl: the value is the later one's, the ttl the
\* earlier one's.
C3_Witness ==
    /\ Aggregated
    /\ Len(Positions("www", "CNAME")) = 2
    /\ ZoneRecs[1].data # ZoneRecs[2].data
    /\ ZoneRecs[1].ttl = Some(30)
    /\ ZoneRecs[2].ttl = Some(DefaultTtl)
    /\ ret.value["www"][1].value = ZoneRecs[2].data
    /\ ret.value["www"][1].ttl = 30

C9_SparseOrderedEntries ==
    Aggregated =>
        \A host \in DOMAIN ret.value :
            LET rrset == ret.value[host]
            IN  /\ Len(rrset) >= 1
                /\ \A i \in DOMAIN rrset : rrset[i].type \in RecordType
                /\ \A i, j \in DOMAIN rrset :
                       i < j => KindPosition(rrset[i].type)
                                    < KindPosition(rrset[j].type)
                /\ \A kind \in RecordType :
                       (EntriesOf(host, kind) # {}) <=> (Len(Positions(host, kind)) >= 1)
                /\ \A i \in DOMAIN rrset :
                       rrset[i].type \in MultiValueKinds => Len(rrset[i].values) >= 1

\* C9's case: a CNAME added before an A record of the same host; the A entry
\* still comes first.
C9_Witness ==
    /\ Aggregated
    /\ Len(ZoneRecs) = 2
    /\ ZoneRecs[1].type = "CNAME" /\ ZoneRecs[2].type = "A"
    /\ ZoneRecs[1].name = ZoneRecs[2].name
    /\ ret.value[ZoneRecs[1].name][1].type = "A"
    /\ ret.value[ZoneRecs[1].name][2].type = "CNAME"

\* C10: every min_ttl call of a zone_rrest() call is made on a list holding
\* at least one record of the requested kind, so the fallback is never
\* returned: every entry's ttl is the least ttl of the records behind it.
C10_MinTtlNeverFallsBack ==
    Aggregated =>
        \A host \in DOMAIN ret.value :
            /\ \A c \in DOMAIN ret.min_ttl_args[host] :
                   LET call == ret.min_ttl_args[host][c]
                   IN  \E i \in DOMAIN call.records :
                           call.records[i].type = call.record_type
            /\ Len(ret.min_ttl_args[host]) = Len(ret.value[host])
            /\ \A i \in DOMAIN ret.value[host] :
                   LET entry == ret.value[host][i]
                       pos == Positions(host, entry.type)
                   IN  Len(pos) >= 1 /\ IsLeastTtl(entry.ttl, pos)

\* C10's case: an entry whose ttl is 30, the value of the fallback, because
\* 30 is the least ttl of its records, beside an entry with another ttl.
C10_Witness ==
    /\ Aggregated
    /\ \E host \in DOMAIN ret.value :
           /\ Len(ret.value[host]) = 2
           /\ ret.value[host][1].ttl = MinTtlFallback
           /\ ret.value[host][2].ttl = DefaultTtl

(***************************************************************************)
(* SpecCtor: the constructors on the edge cases of their arguments (empty  *)
(* strings, strings that end or do not end with ".", CAA flags around the  *)
(* range 0..255), with a zone to add the records to and a configuration    *)
(* to add the zone to.                                                     *)
(***************************************************************************)
CtorAtoms == {"", "x"}
CtorStrings == {<<>>, <<"a">>, <<"a", ".">>}
CtorTexts == {<<>>, <<";">>, <<"a", ";", ";">>}
CtorFlags == {0 - 1, 0, 255, 256}

NextCtor ==
    \/ \E x \in CtorAtoms : NewA("@", x, None)
    \/ \E x \in CtorAtoms : NewAAAA("@", x, None)
    \/ \E x \in CtorStrings : NewCNAME("@", x, None)
    \/ \E x \in CtorStrings : NewMX("@", x, 10, None)
    \/ \E x \in CtorTexts : NewTXT("@", x, None)
    \/ \E x \in CtorStrings : NewSRV("@", x, 443, 1, 5, None)
    \/ \E x \in CtorFlags : NewCAA("@", x, CAAFlag.Issue, "ca.example", None)
    \/ \E x \in CtorAtoms : NewSSHFP("@", 4, 2, x, None)
    \/ \E r \in DOMAIN heap : AddRecord(1, r)
    \/ AddZone(1)

SpecCtor == Init /\ [][NextCtor]_vars

NonCaaConstructors ==
    {"ARecord", "AAAARecord", "CNAMERecord", "MXRecord", "TXTRecord",
     "SRVRecord", "SSHFPRecord"}

\* C6: only CAARecord can fail, and only on a flag outside 0..255; the other
\* constructors return a record for every string argument, the empty string
\* included.
C6_OnlyCaaRaises ==
    /\ ret.op \in NonCaaConstructors => ret.raised = ""
    /\ ret.op = "CAARecord" =>
           (ret.raised # "" <=> ~(0 <= ret.arg /\ ret.arg <= 255))

\* C7: CAARecord succeeds exactly when 0 <= flag <= 255 and raises a
\* ValueError otherwise; no CAA record with a flag outside the range ever
\* exists, so none can be added; and the failed construction leaves the
\* records, the zones and the configuration as they were.
C7_CaaFlagRange ==
    /\ [](ret.op = "CAARecord" =>
              /\ ret.raised = (IF 0 <= ret.arg /\ ret.arg <= 255 THEN ""
                               ELSE "ValueError")
              /\ ret.raised = "" =>
                     /\ heap[Len(heap)].type = "CAA"
                     /\ heap[Len(heap)].data.flag = ret.arg)
    /\ [](\A r \in DOMAIN heap :
              heap[r].type = "CAA" =>
                  (0 <= heap[r].data.flag /\ heap[r].data.flag <= 255))
    /\ [][(ret'.op = "CAARecord" /\ ret'.raised # "") =>
              (heap' = heap /\ zones' = zones /\ config' = config)]_vars

\* C7's case: CAARecord with flag 256 fails while the zone holds a CAA
\* record with flag 255 and the configuration holds the zone.
C7_Witness ==
    /\ ret.op = "CAARecord" /\ ret.arg = 256 /\ ret.raised = "ValueError"
    /\ zones[1].records = <<1>>
    /\ heap[1].type = "CAA" /\ heap[1].data.flag = 255
    /\ config = <<1>>

(***************************************************************************)
(* SpecTtl: two zones, Zone("a") and Zone("b", 20), A records with and     *)
(* without a ttl, added to either zone any number of times, while the      *)
(* caller changes the zones' default_ttl.                                  *)
(***************************************************************************)
ZoneTtls == {DefaultTtl, 20}

InitTtl ==
    /\ heap = <<>>
    /\ zones = <<Zone(<<"a">>, DefaultTtl).value, Zone(<<"b">>, 20).value>>
    /\ config = <<>>
    /\ ret = [op |-> "init"]

NextTtl ==
    \/ Attached /\ \E t \in TTLs : NewA("@", "1.2.3.4", t)
    \/ \E z \in DOMAIN zones, r \in DOMAIN heap : AddRecord(z, r)
    \/ \E z \in DOMAIN zones :
           \E rs \in SeqsUpTo(DOMAIN heap, MaxRecords - Len(zones[z].records)) :
               AddRecords(z, rs)
    \/ \E z \in DOMAIN zones, t \in ZoneTtls : SetDefaultTtl(z, t)
    \/ \E z \in DOMAIN zones : ZoneRrest(z)

SpecTtl == InitTtl /\ [][NextTtl]_vars

\* C4: a record's ttl, once it is set (given at construction or resolved by
\* add_record), never changes again, whatever is called later; add_record
\* and add_records give a record without a ttl the default_ttl the zone has
\* at that moment; no other call touches a ttl; and a record in a zone's
\* list always has a ttl.
C4_TtlResolvedOnce ==
    /\ [][\A r \in DOMAIN heap :
              heap[r].ttl # None => heap'[r].ttl = heap[r].ttl]_vars
    /\ [][\A r \in DOMAIN heap :
              (heap[r].ttl = None /\ heap'[r].ttl # None) =>
                  /\ ret'.op \in {"add_record", "add_records"}
                  /\ heap'[r].ttl = Some(zones[ret'.zone].default_ttl)
                  /\ r \in Range(zones'[ret'.zone].records)]_vars
    /\ [](\A z \in DOMAIN zones : \A r \in Range(zones[z].records) :
              heap[r].ttl # None)

\* C4's case: a record that got zone 1's default_ttl of 60 is also in zone
\* 2, whose default_ttl is 20, after zone 1's default_ttl was changed to 20,
\* and still has the ttl 60 in the aggregation of zone 2.
C4_Witness ==
    /\ Aggregated /\ ret.zone = 2
    /\ zones[1].default_ttl = 20 /\ zones[2].default_ttl = 20
    /\ zones[1].records = <<1>> /\ zones[2].records = <<1>>
    /\ heap[1].ttl = Some(DefaultTtl)
    /\ ret.value[""][1].ttl = DefaultTtl

(***************************************************************************)
(* SpecConfig: zones are constructed under names with and without the      *)
(* trailing "." and added to the configuration.                            *)
(***************************************************************************)
ZoneNames == {<<>>, <<"a">>, <<"a", ".">>, <<"b">>, <<"c", ".">>}

InitConfig ==
    /\ heap = <<>>
    /\ zones = <<>>
    /\ config = <<>>
    /\ ret = [op |-> "init"]

NextConfig ==
    \/ \E n \in ZoneNames, t \in ZoneTtls : NewZone(n, t)
    \/ \E z \in DOMAIN zones : AddZone(z)

SpecConfig == InitConfig /\ [][NextConfig]_vars

ConfigNames(cfg) == {zones[c].name : c \in Range(cfg)}

\* C5: the zones of the configuration have pairwise distinct names, each
\* ending with "."; add_zone of a zone whose name is already there raises
\* and leaves the zones list as it was, add_zone of a new name appends the
\* zone at the end and raises nothing.
C5_UniqueZoneNames ==
    /\ [](\A i, j \in DOMAIN config :
              i # j => zones[config[i]].name # zones[config[j]].name)
    /\ [](\A z \in DOMAIN zones : zones[z].name[Len(zones[z].name)] = ".")
    /\ [][ret'.op = "add_zone" =>
              IF zones[ret'.zone].name \in ConfigNames(config)
              THEN ret'.raised = "ValueError" /\ config' = config
              ELSE ret'.raised = "" /\ config' = Append(config, ret'.zone)]_vars

\* C5's case: Zone("a") is in the configuration and add_zone of a second
\* zone built as Zone("a.") has just failed.
C5_Witness ==
    /\ ret.op = "add_zone" /\ ret.raised = "ValueError" /\ ret.zone = 2
    /\ config = <<1>>
    /\ zones[1].name = zones[2].name

====
